---- MODULE Spec2Model ----
(***************************************************************************)
(* Model of src/parser.py: the generic DART income-statement extractor.    *)
(*                                                                         *)
(* Text.  TLC cannot take a string apart, so a Python str is modelled as a *)
(* sequence of atoms.  An atom is one ASCII character ("1", ",", "(" ...), *)
(* one markup tag, or one Korean/English morpheme that no vocabulary term  *)
(* of the model splits, written in ASCII romanisation:                     *)
(*                                                                         *)
(*   "^"  △            "sonik"      손익     "gyesanseo" 계산서              *)
(*   "yeongyeol" 연결   "maechul"    매출     "aek"       액                  *)
(*   "ija" 이자         "suik"       수익     "yeongeop"  영업                *)
(*   "iik" 이익         "danggi"     당기     "sun"       순                  *)
(*   "jeongi" 전기      "gu"         구       "bun"       분                  *)
(*   "danwi" 단위       "won"        원       "bigo"      비고                *)
(*   "yeol" 열          "LOREM"  a paragraph of CTX_WINDOW characters that  *)
(*                               holds no vocabulary term                  *)
(*                                                                         *)
(* so 손익계산서 is <<"sonik","gyesanseo">>, 매출액 is <<"maechul","aek">>,   *)
(* "구 분" is <<"gu"," ","bun">>.  Python's `k in s` is then the search of   *)
(* a contiguous subsequence (IsSub), which keeps every containment between *)
(* the terms (손익 in 손익계산서, 매출 in 매출액, 연결 in 연결손익계산서).       *)
(***************************************************************************)
EXTENDS Integers, Sequences, FiniteSets, TLC

\* ------------------------------------------------------------------------
\* Sequence helpers (Python built-ins)
\* ------------------------------------------------------------------------

\* Python `k in s` for strings: k occurs in s as a contiguous run.
IsSub(k, s) ==
    \E i \in 1..(Len(s) - Len(k) + 1) :
        \A j \in 1..Len(k) : s[i + j - 1] = k[j]

\* any(k in s for k in ks), ks a sequence of terms
AnyIn(ks, s) ==
    \E n \in 1..Len(ks) : IsSub(ks[n], s)

\* sum(k in s for k in ks): the number of list ENTRIES found (a term listed
\* twice counts twice)
CountIn(ks, s) ==
    Cardinality({n \in 1..Len(ks) : IsSub(ks[n], s)})

\* sep.join(parts)
RECURSIVE Join(_, _)
Join(parts, sep) ==
    IF Len(parts) = 0 THEN <<>>
    ELSE IF Len(parts) = 1 THEN parts[1]
    ELSE parts[1] \o sep \o Join(Tail(parts), sep)

\* [x for x in s if x != ""] and [r for r in rows if r]: the empty entries
\* of a list are removed, the others keep their order
RECURSIVE DropEmpty(_)
DropEmpty(s) ==
    IF s = <<>> THEN <<>>
    ELSE IF Head(s) # <<>> THEN <<Head(s)>> \o DropEmpty(Tail(s))
    ELSE DropEmpty(Tail(s))

Max2(a, b) == IF a >= b THEN a ELSE b

Min2(a, b) == IF a <= b THEN a ELSE b

\* max(len(r) for r in rows)
RECURSIVE MaxLen(_)
MaxLen(rows) ==
    IF Len(rows) = 1 THEN Len(rows[1])
    ELSE Max2(Len(rows[1]), MaxLen(Tail(rows)))

\* sum(len(r) for r in rows)
RECURSIVE SumLen(_)
SumLen(rows) ==
    IF rows = <<>> THEN 0 ELSE Len(Head(rows)) + SumLen(Tail(rows))

\* ------------------------------------------------------------------------
\* Markup atoms and the regular expressions (parser.py:81-91)
\* ------------------------------------------------------------------------

TagAtoms == {"<TABLE>", "</TABLE>", "<TR>", "</TR>", "<TD>", "</TD>", "<P>", "</P>"}

DigitAtoms == {"0", "1", "2", "3", "4", "5", "6", "7", "8", "9"}

\* The least index i >= p with s[i] = a, or 0 when there is none.
FirstAt(s, a, p) ==
    IF \E i \in p..Len(s) : s[i] = a
    THEN CHOOSE i \in p..Len(s) : s[i] = a /\ \A j \in p..(i - 1) : s[j] # a
    ELSE 0

\* re.finditer of a lazy pattern  open .*? close : from p the leftmost opening
\* tag pairs with the first closing tag after it, whatever lies between, and
\* the scan goes on after that closing tag; an opening tag with no closing tag
\* after it matches nothing.  The result is the sequence of <<start, end>>.
RECURSIVE LazyMatches(_, _, _, _)
LazyMatches(s, open, close, p) ==
    LET i == FirstAt(s, open, p)
        j == IF i = 0 THEN 0 ELSE FirstAt(s, close, i + 1)
    IN  IF i = 0 \/ j = 0 THEN <<>>
        ELSE <<(<<i, j>>)>> \o LazyMatches(s, open, close, j + 1)

\* TABLE_RE, TR_RE: the matches with their tags; CELL_RE: group 1, the text
\* between the cell's tags.
TABLE_RE(doc) == LazyMatches(doc, "<TABLE>", "</TABLE>", 1)

TR_RE(tbl) ==
    LET ms == LazyMatches(tbl, "<TR>", "</TR>", 1)
    IN  [n \in 1..Len(ms) |-> SubSeq(tbl, ms[n][1], ms[n][2])]

CELL_RE(tr) ==
    LET ms == LazyMatches(tr, "<TD>", "</TD>", 1)
    IN  [n \in 1..Len(ms) |-> SubSeq(tr, ms[n][1] + 1, ms[n][2] - 1)]

\* SPACE_RE.sub(" ", s): every run of white space becomes one space (the
\* first atom of the run is kept).
CollapseSpaces(s) ==
    LET marked == [n \in 1..Len(s) |-> <<s[n], n > 1 /\ s[n] = " " /\ s[n - 1] = " ">>]
        NotInRun(p) == ~p[2]
        kept == SelectSeq(marked, NotInRun)
    IN  [n \in 1..Len(kept) |-> kept[n][1]]

\* str.strip() on a string whose white space is the atom " "
Strip(s) ==
    LET inked == {n \in 1..Len(s) : s[n] # " "}
    IN  IF inked = {} THEN <<>>
        ELSE SubSeq(s, CHOOSE a \in inked : \A n \in 1..(a - 1) : s[n] = " ",
                       CHOOSE b \in inked : \A n \in (b + 1)..Len(s) : s[n] = " ")

\* normalize_text: the entity &nbsp; (and the ideographic space) become a
\* space, white space is collapsed, the ends are stripped.  The model's atoms
\* are already in NFKC form.
normalize_text(s) ==
    Strip(CollapseSpaces([n \in 1..Len(s) |-> IF s[n] = "&nbsp;" THEN " " ELSE s[n]]))

\* strip_tags_keep_text: TAG_RE.sub(" ", html), then normalize_text
strip_tags_keep_text(html) ==
    normalize_text([n \in 1..Len(html) |-> IF html[n] \in TagAtoms THEN " " ELSE html[n]])

\* NUM_TOKEN [0-9] and NUM_SHAPE [\d,()\-△]: NUM_SHAPE's class holds \d
numeric_like(s) ==
    /\ \E n \in 1..Len(s) : s[n] \in DigitAtoms
    /\ \E n \in 1..Len(s) : s[n] \in DigitAtoms \cup {",", "(", ")", "-", "^"}

\* extract_tables / TABLE_RE.findall
extract_tables(doc) ==
    LET ms == TABLE_RE(doc)
    IN  [n \in 1..Len(ms) |-> SubSeq(doc, ms[n][1], ms[n][2])]

\* The cleaned cells of one <TR> block: empty cells are removed.
CleanedCells(tr) ==
    LET cells == CELL_RE(tr)
    IN  DropEmpty([n \in 1..Len(cells) |-> strip_tags_keep_text(cells[n])])

\* extract_rows: a row whose cleaned cells are all empty is not appended.
extract_rows(table_html) ==
    LET trs == TR_RE(table_html)
    IN  DropEmpty([n \in 1..Len(trs) |-> CleanedCells(trs[n])])

\* ------------------------------------------------------------------------
\* Dictionaries (parser.py:35-78), in the source's order, restricted to the
\* terms written with the model's atoms: a term that needs another atom can
\* occur in no string of the model and adds nothing to any sum.
\* ------------------------------------------------------------------------

\* 매출액, 매출, 수익, 매출수익, 영업이익, 당기순이익, 이자수익, "income statement"
LINE_ITEMS_COMMON ==
    << <<"maechul", "aek">>, <<"maechul">>, <<"suik">>, <<"maechul", "suik">>,
       <<"yeongeop", "iik">>, <<"danggi", "sun", "iik">>, <<"ija", "suik">>,
       <<"income", " ", "statement">> >>

\* 이자수익, 이자이익, 영업수익
LINE_ITEMS_FINANCE ==
    << <<"ija", "suik">>, <<"ija", "iik">>, <<"yeongeop", "suik">> >>

\* "구 분", 구분, 손익, 단위, 당기, 전기
HEADER_HINTS ==
    << <<"gu", " ", "bun">>, <<"gu", "bun">>, <<"sonik">>, <<"danwi">>,
       <<"danggi">>, <<"jeongi">> >>

\* 손익계산서, 연결손익계산서, "income statement"
TITLE_KEYWORDS ==
    << <<"sonik", "gyesanseo">>, <<"yeongyeol", "sonik", "gyesanseo">>,
       <<"income", " ", "statement">> >>

\* PERIOD_TOKEN.search(s): the alternatives 당기 | 전기 | year
PERIOD_TOKEN(s) ==
    IsSub(<<"danggi">>, s) \/ IsSub(<<"jeongi">>, s) \/ IsSub(<<"year">>, s)

\* 연결, the marker of the consolidated statement
CONSOLIDATED == <<"yeongyeol">>

\* 단위, the marker of a unit legend
UNIT == <<"danwi">>

\* score_table_rows: fewer rows than this are rejected
MIN_ROWS == 5

\* score_table_rows: first_rows = rows[:12]
BONUS_ROWS == 12

\* score_table_rows: size_bonus = min(len(rows), 120) / 120.0
SIZE_CAP == 120

\* find_header_index: rows[:15]
HEADER_SCAN == 15

\* parse_income_statement_df: ctx = doc[max(0, m.start()-1800):m.start()]
CTX_WINDOW == 1800

\* The number of characters an atom stands for.
AtomLen(a) ==
    CASE a = "LOREM" -> CTX_WINDOW
      [] a \in {"<TABLE>"} -> 7
      [] a \in {"</TABLE>"} -> 8
      [] a \in {"<TR>", "<TD>", "</P>", "year"} -> 4
      [] a \in {"</TR>", "</TD>"} -> 5
      [] a \in {"&nbsp;", "income"} -> 6
      [] a \in {"statement", "yeongyeol"} -> 9
      [] a \in {"<P>", "gyesanseo"} -> 3
      [] a \in {"sonik", "maechul", "ija", "suik", "yeongeop", "iik", "danggi",
                "jeongi", "danwi", "bigo"} -> 2
      [] OTHER -> 1

\* ------------------------------------------------------------------------
\* Scoring (parser.py:122-154).  A score is an exact fraction <<num, den>>,
\* den > 0, counted in units of 1/SIZE_CAP: its value is num / (SIZE_CAP * den).
\* The floating-point rounding of the sums is not modelled.
\* ------------------------------------------------------------------------

Less(a, b) == a[1] * b[2] < b[1] * a[2]

\* the number of entries kw of ks with  kw in ctx or kw in tbl
CountEither(ks, ctx, tbl) ==
    Cardinality({n \in 1..Len(ks) : IsSub(ks[n], ctx) \/ IsSub(ks[n], tbl)})

\* A faulty variant of score_table_context, told from the code by C16: the
\* boost for 연결 does not look at the caller's flag.
score_table_context_unflagged(ctx, tbl, prefer_consolidated) ==
    50 * CountEither(TITLE_KEYWORDS, ctx, tbl)
    + 15 * CountEither(LINE_ITEMS_COMMON, ctx, tbl)
    + 18 * CountEither(LINE_ITEMS_FINANCE, ctx, tbl)
    + (IF IsSub(CONSOLIDATED, ctx) \/ IsSub(CONSOLIDATED, tbl) THEN 20 ELSE 0)

\* score_table_context, in tenths (5.0, 1.5, 1.8 and 2.0 are 50, 15, 18, 20)
score_table_context(ctx, tbl, prefer_consolidated) ==
    50 * CountEither(TITLE_KEYWORDS, ctx, tbl)
    + 15 * CountEither(LINE_ITEMS_COMMON, ctx, tbl)
    + 18 * CountEither(LINE_ITEMS_FINANCE, ctx, tbl)
    + (IF prefer_consolidated /\ (IsSub(CONSOLIDATED, ctx) \/ IsSub(CONSOLIDATED, tbl))
       THEN 20 ELSE 0)

\* " ".join(r)
Joined(r) == Join(r, <<" ">>)

\* The loop over rows[:12], in tenths: a row with a header hint sets 1.0 and
\* ends the loop, a row with only a period token sets 0.6 and the loop goes on.
RECURSIVE HeaderBonus(_, _, _)
HeaderBonus(rows, i, bonus) ==
    IF i > Min2(Len(rows), BONUS_ROWS) THEN bonus
    ELSE IF AnyIn(HEADER_HINTS, Joined(rows[i])) THEN 10
    ELSE IF PERIOD_TOKEN(Joined(rows[i])) THEN HeaderBonus(rows, i + 1, 6)
    ELSE HeaderBonus(rows, i + 1, bonus)

\* sum(numeric_like(c) for r in rows for c in r)
RECURSIVE NumCells(_)
NumCells(rows) ==
    IF rows = <<>> THEN 0
    ELSE Cardinality({n \in 1..Len(Head(rows)) : numeric_like(Head(rows)[n])})
         + NumCells(Tail(rows))

\* A faulty variant of score_table_rows, told from the code by C1: the filter on
\* the number of rows is missing.
score_table_rows_unfiltered(rows) ==
    LET flat == Join([n \in 1..Len(rows) |-> Joined(rows[n])], <<" ">>)
        li_hits == CountIn(LINE_ITEMS_COMMON, flat) + CountIn(LINE_ITEMS_FINANCE, flat)
        T == Max2(1, SumLen(rows))
    IN  << T * (8 * SIZE_CAP * li_hits
                + 2 * (SIZE_CAP \div 10) * HeaderBonus(rows, 1, 0)
                + Min2(Len(rows), SIZE_CAP))
           + 5 * SIZE_CAP * NumCells(rows),
           T >>

\* score_table_rows: -1.0 for fewer than MIN_ROWS rows, else
\* li_hits*8 + num_density*5 + header_bonus*2 + size_bonus, over the
\* denominator T = max(1, total_cells) of num_density
score_table_rows(rows) ==
    IF Len(rows) < MIN_ROWS THEN <<0 - SIZE_CAP, 1>>
    ELSE LET flat == Join([n \in 1..Len(rows) |-> Joined(rows[n])], <<" ">>)
             li_hits == CountIn(LINE_ITEMS_COMMON, flat) + CountIn(LINE_ITEMS_FINANCE, flat)
             T == Max2(1, SumLen(rows))
         IN  << T * (8 * SIZE_CAP * li_hits
                     + 2 * (SIZE_CAP \div 10) * HeaderBonus(rows, 1, 0)
                     + Min2(Len(rows), SIZE_CAP))
                + 5 * SIZE_CAP * NumCells(rows),
                T >>

\* total = ctx_score + row_score, ctx_score in tenths
Total(ctx_score, row_score) ==
    << (SIZE_CAP \div 10) * ctx_score * row_score[2] + row_score[1], row_score[2] >>

\* ------------------------------------------------------------------------
\* Header detection and table reconstruction (parser.py:157-195).  Indices
\* are Python's: find_header_index returns a 0-based index.
\* ------------------------------------------------------------------------

LooksLikeHeader(r) ==
    AnyIn(HEADER_HINTS, Joined(r)) \/ PERIOD_TOKEN(Joined(r))

\* A faulty variant of find_header_index, told from the code by C20: the scan
\* does not stop after HEADER_SCAN rows.
find_header_index_unbounded(rows) ==
    LET scan == 1..Len(rows)
    IN  IF \E i \in scan : LooksLikeHeader(rows[i])
        THEN (CHOOSE i \in scan :
                 LooksLikeHeader(rows[i]) /\ \A j \in 1..(i - 1) : ~LooksLikeHeader(rows[j])) - 1
        ELSE 0

\* find_header_index
find_header_index(rows) ==
    LET scan == 1..Min2(Len(rows), HEADER_SCAN)
    IN  IF \E i \in scan : LooksLikeHeader(rows[i])
        THEN (CHOOSE i \in scan :
                 LooksLikeHeader(rows[i]) /\ \A j \in 1..(i - 1) : ~LooksLikeHeader(rows[j])) - 1
        ELSE 0

\* sum(c in header for c in r): the cells of r equal to some cell of header
InHeaderCount(r, header) ==
    Cardinality({n \in 1..Len(r) : \E m \in 1..Len(header) : header[m] = r[n]})

\* The test of drop_redundant_header_rows on one row
IsRedundantHeader(r, header) ==
    /\ AnyIn(HEADER_HINTS, Joined(r))
    /\ InHeaderCount(r, header) >= Max2(2, Len(header) \div 2)

\* The loop of drop_redundant_header_rows over data[1:]
RECURSIVE KeepNonRedundant(_, _)
KeepNonRedundant(rs, header) ==
    IF rs = <<>> THEN <<>>
    ELSE IF IsRedundantHeader(Head(rs), header) THEN KeepNonRedundant(Tail(rs), header)
    ELSE <<Head(rs)>> \o KeepNonRedundant(Tail(rs), header)

\* drop_redundant_header_rows
drop_redundant_header_rows(data) ==
    IF data = <<>> THEN data
    ELSE <<data[1]>> \o KeepNonRedundant(Tail(data), data[1])

\* r + [""]*(max_len - len(r))
Pad(r, max_len) ==
    [n \in 1..Max2(max_len, Len(r)) |-> IF n <= Len(r) THEN r[n] ELSE <<>>]

\* A faulty variant of DropUnitRows, told from the code by C21: a row is
\* dropped only when one of its cells is the marker and nothing else.
RECURSIVE DropUnitRowsExact(_)
DropUnitRowsExact(body) ==
    IF body = <<>> THEN <<>>
    ELSE IF \E n \in 1..Len(Head(body)) : Head(body)[n] = UNIT
         THEN DropUnitRowsExact(Tail(body))
    ELSE <<Head(body)>> \o DropUnitRowsExact(Tail(body))

\* [r for r in body if not any("단위" in c for c in r)]
RECURSIVE DropUnitRows(_)
DropUnitRows(body) ==
    IF body = <<>> THEN <<>>
    ELSE IF \E n \in 1..Len(Head(body)) : IsSub(UNIT, Head(body)[n])
         THEN DropUnitRows(Tail(body))
    ELSE <<Head(body)>> \o DropUnitRows(Tail(body))

\* str(j) for j >= 0
RECURSIVE Decimal(_)
Decimal(j) ==
    LET d == <<"0", "1", "2", "3", "4", "5", "6", "7", "8", "9">>
    IN  IF j < 10 THEN <<d[j + 1]>> ELSE Decimal(j \div 10) \o <<d[(j % 10) + 1]>>

\* f"열{j}"
Placeholder(j) == <<"yeol">> \o Decimal(j)

\* s.replace(old, new), old not empty
RECURSIVE Replace(_, _, _)
Replace(s, old, new) ==
    IF Len(s) < Len(old) THEN s
    ELSE IF SubSeq(s, 1, Len(old)) = old
         THEN new \o Replace(SubSeq(s, Len(old) + 1, Len(s)), old, new)
    ELSE <<Head(s)>> \o Replace(Tail(s), old, new)

\* c.replace("구 분","구분"): the label variant written with the model's atoms
TidyLabel(c) == Replace(c, <<"gu", " ", "bun">>, <<"gu", "bun">>)

\* A faulty variant of TrimWidth, told from the code by C23: the loop is an
\* if, so one trailing column at most is dropped.
TrimWidthOnce(body, w) ==
    IF w > 1 /\ \A n \in 1..Len(body) : body[n][w] = <<>> THEN w - 1 ELSE w

\* A faulty variant of TrimWidth, told from the code by C15: the test
\* df.shape[1] > 1 is missing, so a table without body rows loses every column.
RECURSIVE TrimWidthToNone(_, _)
TrimWidthToNone(body, w) ==
    IF w > 0 /\ \A n \in 1..Len(body) : body[n][w] = <<>>
    THEN TrimWidthToNone(body, w - 1)
    ELSE w

\* The trailing columns to keep: while df.shape[1] > 1 and the last column is
\* empty in every body row (in every one of no rows too), drop it.
RECURSIVE TrimWidth(_, _)
TrimWidth(body, w) ==
    IF w > 1 /\ \A n \in 1..Len(body) : body[n][w] = <<>>
    THEN TrimWidth(body, w - 1)
    ELSE w

\* A faulty variant of build_dataframe, told from the code by C7: the header is
\* padded, the body rows are not.
build_dataframe_ragged(rows) ==
    LET hidx == find_header_index(rows)
        header == Pad(rows[hidx + 1], MaxLen(rows))
        raws == [n \in 1..(Len(rows) - hidx - 1) |-> rows[hidx + 1 + n]]
        body == Tail(drop_redundant_header_rows(<<header>> \o DropUnitRows(raws)))
        cols == [j \in 1..Len(header) |->
                    TidyLabel(IF header[j] # <<>> THEN header[j] ELSE Placeholder(j - 1))]
    IN  [cols |-> cols,
         body |-> [n \in 1..Len(body) |-> [j \in 1..Len(body[n]) |-> Strip(body[n][j])]]]

\* build_dataframe: the DataFrame is [cols, body]; rows is not empty
build_dataframe(rows) ==
    LET hidx == find_header_index(rows)
        max_len == MaxLen(rows)
        header == Pad(rows[hidx + 1], max_len)
        padded == [n \in 1..(Len(rows) - hidx - 1) |-> Pad(rows[hidx + 1 + n], max_len)]
        body == Tail(drop_redundant_header_rows(<<header>> \o DropUnitRows(padded)))
        cols == [j \in 1..Len(header) |->
                    TidyLabel(IF header[j] # <<>> THEN header[j] ELSE Placeholder(j - 1))]
        cells == [n \in 1..Len(body) |-> [j \in 1..Len(body[n]) |-> Strip(body[n][j])]]
        w == TrimWidth(cells, Len(cols))
    IN  [cols |-> SubSeq(cols, 1, w),
         body |-> [n \in 1..Len(cells) |-> SubSeq(cells[n], 1, w)]]

\* ------------------------------------------------------------------------
\* Numeric conversion (parser.py:198-234).  A float is [ok, num, scale]: the
\* value num / 10^scale; None is NoneValue.
\* ------------------------------------------------------------------------

NoneValue == [ok |-> FALSE, num |-> 0, scale |-> 0]

\* s.replace(a, ""), a one atom
RECURSIVE Remove(_, _)
Remove(s, a) ==
    IF s = <<>> THEN s
    ELSE IF Head(s) = a THEN Remove(Tail(s), a)
    ELSE <<Head(s)>> \o Remove(Tail(s), a)

\* \d+
IsDigits(s) ==
    Len(s) >= 1 /\ \A n \in 1..Len(s) : s[n] \in DigitAtoms

\* t without its leading sign, if it has one
Unsigned(t) ==
    IF t # <<>> /\ t[1] \in {"-", "+"} THEN Tail(t) ELSE t

\* A faulty variant of FullMatchNumber, told from the code by C9: the lone
\* sign "-" matches too.
FullMatchNumberOrDash(t) ==
    \/ t = <<"-">>
    \/ LET u == Unsigned(t)
           d == FirstAt(u, ".", 1)
       IN  IF d = 0 THEN IsDigits(u)
           ELSE IsDigits(SubSeq(u, 1, d - 1)) /\ IsDigits(SubSeq(u, d + 1, Len(u)))

\* re.fullmatch(r"[-+]?\d+(\.\d+)?", t)
FullMatchNumber(t) ==
    LET u == Unsigned(t)
        d == FirstAt(u, ".", 1)
    IN  IF d = 0 THEN IsDigits(u)
        ELSE IsDigits(SubSeq(u, 1, d - 1)) /\ IsDigits(SubSeq(u, d + 1, Len(u)))

DigitValue(a) ==
    CHOOSE v \in 0..9 : <<"0", "1", "2", "3", "4", "5", "6", "7", "8", "9">>[v + 1] = a

\* The integer a run of digits writes
RECURSIVE IntOf(_)
IntOf(digits) ==
    IF digits = <<>> THEN 0
    ELSE 10 * IntOf(SubSeq(digits, 1, Len(digits) - 1)) + DigitValue(digits[Len(digits)])

\* float(t), t matching [-+]?\d+(\.\d+)?
FloatOf(t) ==
    LET u == Unsigned(t)
        d == FirstAt(u, ".", 1)
        m == IntOf(Remove(u, "."))
    IN  [ok |-> TRUE,
         num |-> IF t[1] = "-" THEN 0 - m ELSE m,
         scale |-> IF d = 0 THEN 0 ELSE Len(u) - d]

\* A faulty variant of Negate, told from the code by C8: the sign is kept.
NegateNot(v) == v

\* -val
Negate(v) == [v EXCEPT !.num = 0 - v.num]

\* _parse_korean_number on a str
_parse_korean_number(s) ==
    LET t0 == Remove(Strip(s), " ")
        hasTri == \E n \in 1..Len(t0) : t0[n] = "^"
        t1 == Remove(t0, "^")
        paren == t1 # <<>> /\ t1[1] = "(" /\ t1[Len(t1)] = ")"
        t2 == IF paren THEN SubSeq(t1, 2, Len(t1) - 1) ELSE t1
        t3 == IF t2 # <<>> /\ t2[Len(t2)] = "%" THEN SubSeq(t2, 1, Len(t2) - 1) ELSE t2
        t4 == Remove(t3, ",")
        neg == hasTri \/ paren
    IN  IF Strip(s) = <<>> THEN NoneValue
        ELSE IF ~FullMatchNumber(t4) THEN NoneValue
        ELSE IF neg THEN Negate(FloatOf(t4))
        ELSE FloatOf(t4)

\* A cell of a DataFrame: the text of an object column, or the float or the
\* NaN of a promoted column.
TextCell(s) == [kind |-> "text", text |-> s, num |-> 0, scale |-> 0]

NumberCell(v) ==
    IF v.ok THEN [kind |-> "num", text |-> <<>>, num |-> v.num, scale |-> v.scale]
    ELSE [kind |-> "nan", text |-> <<>>, num |-> 0, scale |-> 0]

\* parsed.notna().mean() >= 0.5 for column j; the mean of no cells is NaN
Promotes(body, j) ==
    LET n == Len(body)
        k == Cardinality({r \in 1..n : _parse_korean_number(body[r][j]).ok})
    IN  n > 0 /\ 2 * k >= n

\* out[c] is a DataFrame, not a Series, when the label c is on several
\* columns: DataFrame.map is missing (pandas < 2.1) or the truth value of the
\* comparison is ambiguous (pandas >= 2.1), and to_numeric_df raises.
HasDuplicateLabel(cols) ==
    \E i, j \in 1..Len(cols) : i # j /\ cols[i] = cols[j]

\* A faulty variant of to_numeric_df, told from the code by C11: in a promoted
\* column a cell that does not parse keeps its text.
to_numeric_df_cellwise(df) ==
    IF HasDuplicateLabel(df.cols)
    THEN [ok |-> FALSE, cols |-> <<>>, body |-> <<>>]
    ELSE [ok |-> TRUE,
          cols |-> df.cols,
          body |-> [r \in 1..Len(df.body) |->
                      [j \in 1..Len(df.cols) |->
                          IF Promotes(df.body, j) /\ _parse_korean_number(df.body[r][j]).ok
                          THEN NumberCell(_parse_korean_number(df.body[r][j]))
                          ELSE TextCell(df.body[r][j])]]]

\* to_numeric_df on the DataFrame [cols, body]
to_numeric_df(df) ==
    IF HasDuplicateLabel(df.cols)
    THEN [ok |-> FALSE, cols |-> <<>>, body |-> <<>>]
    ELSE [ok |-> TRUE,
          cols |-> df.cols,
          body |-> [r \in 1..Len(df.body) |->
                      [j \in 1..Len(df.cols) |->
                          IF Promotes(df.body, j)
                          THEN NumberCell(_parse_korean_number(df.body[r][j]))
                          ELSE TextCell(df.body[r][j])]]]

\* ------------------------------------------------------------------------
\* The program state
\* ------------------------------------------------------------------------

VARIABLES
    raw,        \* the text read from xml_path
    prefer,     \* prefer_consolidated
    doc,        \* normalize_text(raw)
    k,          \* the matches of TABLE_RE.finditer(doc) consumed so far
    candidates, \* the list of (total, rows); `at` records the match it came from
    pc,         \* where the call stands
    best,       \* the match whose rows went to build_dataframe (0: none)
    table,      \* the DataFrame build_dataframe returned
    numeric,    \* the result of to_numeric_df
    cell,       \* the argument of _parse_korean_number
    parsed,     \* its result
    sources,    \* the documents given to the batch entry point
    to_numeric, \* its flag: the numeric view is asked for
    results     \* the outcomes collected so far, one per call that ended

vars == <<raw, prefer, doc, k, candidates, pc, best, table, numeric, cell, parsed,
          sources, to_numeric, results>>

NoTable == [cols |-> <<>>, body |-> <<>>]

NoNumeric == [ok |-> FALSE, cols |-> <<>>, body |-> <<>>]

\* The number of characters of d[i..j]
RECURSIVE CharLen(_, _, _)
CharLen(d, i, j) ==
    IF i > j THEN 0
    ELSE IF i = j THEN AtomLen(d[i])
    ELSE CharLen(d, i, (i + j) \div 2) + CharLen(d, (i + j) \div 2 + 1, j)

\* The least i in lo..hi with CharLen(d, i, last) <= CTX_WINDOW (hi fits)
RECURSIVE WindowStart(_, _, _, _)
WindowStart(d, lo, hi, last) ==
    IF lo = hi THEN lo
    ELSE IF CharLen(d, (lo + hi) \div 2, last) <= CTX_WINDOW
         THEN WindowStart(d, lo, (lo + hi) \div 2, last)
    ELSE WindowStart(d, (lo + hi) \div 2 + 1, hi, last)

\* doc[max(0, start-CTX_WINDOW):start], start the index of the match's first
\* atom: the atoms before it that lie wholly inside the window (the cut piece
\* of an atom is no term's atom)
Context(d, start) == SubSeq(d, WindowStart(d, 1, start, start - 1), start - 1)

\* A faulty variant of InsertDesc, told from the code by C2: a candidate goes
\* before the candidates of equal total, so the latest of them comes first.
RECURSIVE InsertDescLatest(_, _)
InsertDescLatest(sorted, c) ==
    IF sorted = <<>> THEN <<c>>
    ELSE IF ~Less(c.total, Head(sorted).total) THEN <<c>> \o sorted
    ELSE <<Head(sorted)>> \o InsertDescLatest(Tail(sorted), c)

\* candidates.sort(key=lambda x: x[0], reverse=True): the sort is stable, also
\* with reverse=True, so candidates of equal total keep their order.
RECURSIVE InsertDesc(_, _)
InsertDesc(sorted, c) ==
    IF sorted = <<>> THEN <<c>>
    ELSE IF Less(Head(sorted).total, c.total) THEN <<c>> \o sorted
    ELSE <<Head(sorted)>> \o InsertDesc(Tail(sorted), c)

RECURSIVE SortDesc(_)
SortDesc(cs) ==
    IF cs = <<>> THEN <<>>
    ELSE InsertDesc(SortDesc(SubSeq(cs, 1, Len(cs) - 1)), cs[Len(cs)])

\* A faulty variant of ScoreMatch, told from the code by C3: a rejected region
\* is appended with its sentinel score all the same.
ScoreMatchKeepAll(d, m, pref, cands, at) ==
    LET tbl == SubSeq(d, m[1], m[2])
        rows == extract_rows(tbl)
    IN  Append(cands, [total |-> Total(score_table_context(Context(d, m[1]), tbl, pref),
                                       score_table_rows(rows)),
                       rows |-> rows, at |-> at])

\* The body of the loop of parse_income_statement_df for the match m: the
\* candidate list after it.
ScoreMatch(d, m, pref, cands, at) ==
    LET tbl == SubSeq(d, m[1], m[2])
        ctx == Context(d, m[1])
        ctx_score == score_table_context(ctx, tbl, pref)
        rows == extract_rows(tbl)
        row_score == score_table_rows(rows)
    IN  IF row_score[1] < 0 THEN cands
        ELSE Append(cands, [total |-> Total(ctx_score, row_score), rows |-> rows, at |-> at])

\* xml_path.read_text(...); doc = normalize_text(raw)
Read ==
    /\ pc = "read"
    /\ doc' = normalize_text(raw)
    /\ pc' = "scan"
    /\ UNCHANGED <<raw, prefer, k, candidates, best, table, numeric, cell, parsed, sources, to_numeric, results>>

\* One turn of  for m in TABLE_RE.finditer(doc)
Scan ==
    /\ pc = "scan"
    /\ k < Len(TABLE_RE(doc))
    /\ candidates' = ScoreMatch(doc, TABLE_RE(doc)[k + 1], prefer, candidates, k + 1)
    /\ k' = k + 1
    /\ UNCHANGED <<raw, prefer, doc, pc, best, table, numeric, cell, parsed, sources, to_numeric, results>>

\* if not candidates: raise ValueError("No candidate ...")
NoCandidate ==
    /\ pc = "scan"
    /\ k = Len(TABLE_RE(doc))
    /\ candidates = <<>>
    /\ pc' = "no_candidate"
    /\ UNCHANGED <<raw, prefer, doc, k, candidates, best, table, numeric, cell, parsed, sources, to_numeric, results>>

\* candidates.sort(...); return build_dataframe(candidates[0][1])
SelectBuild ==
    /\ pc = "scan"
    /\ k = Len(TABLE_RE(doc))
    /\ candidates # <<>>
    /\ best' = SortDesc(candidates)[1].at
    /\ table' = build_dataframe(SortDesc(candidates)[1].rows)
    /\ pc' = "built"
    /\ UNCHANGED <<raw, prefer, doc, k, candidates, numeric, cell, parsed, sources, to_numeric, results>>

\* parser(): return to_numeric_df(df)
Numeric ==
    /\ pc = "built"
    /\ numeric' = to_numeric_df(table)
    /\ pc' = IF numeric'.ok THEN "done" ELSE "numeric_error"
    /\ UNCHANGED <<raw, prefer, doc, k, candidates, best, table, cell, parsed, sources, to_numeric, results>>

\* _parse_korean_number(cell)
ParseCell ==
    /\ pc = "cell"
    /\ parsed' = _parse_korean_number(cell)
    /\ pc' = "parsed"
    /\ UNCHANGED <<raw, prefer, doc, k, candidates, best, table, numeric, cell,
                   sources, to_numeric, results>>

\* ------------------------------------------------------------------------
\* The inputs the specifications draw from
\* ------------------------------------------------------------------------

\* The widest table of the scoring documents, in rows of data under its header
MaxRows == 5

\* The most filler rows that follow them
MaxFill == 5

\* The longest cell given to _parse_korean_number atom by atom
MaxCellLen == 4

\* The most body rows of a DataFrame given to to_numeric_df
MaxBody == 6

SeqsUpTo(S, n) == UNION {[1..m -> S] : m \in 0..n}

\* Markup of a cell, a row and a table region
CellMarkup(text) == <<"<TD>">> \o text \o <<"</TD>">>

RECURSIVE CellsMarkup(_)
CellsMarkup(cells) ==
    IF cells = <<>> THEN <<>> ELSE CellMarkup(Head(cells)) \o CellsMarkup(Tail(cells))

RowMarkup(cells) == <<"<TR>">> \o CellsMarkup(cells) \o <<"</TR>">>

RECURSIVE RowsMarkup(_)
RowsMarkup(rows) ==
    IF rows = <<>> THEN <<>> ELSE RowMarkup(Head(rows)) \o RowsMarkup(Tail(rows))

TableMarkup(rows) == <<"<TABLE>">> \o RowsMarkup(rows) \o <<"</TABLE>">>

\* 손익계산서 and 연결손익계산서
TitleText == <<"sonik", "gyesanseo">>

ConsTitleText == <<"yeongyeol", "sonik", "gyesanseo">>

\* [구분, 당기, 전기]
HeaderRow == << <<"gu", "bun">>, <<"danggi">>, <<"jeongi">> >>

\* [매출액, "1,2", "3"], [영업이익, "(5)", "2"], [비고, "1", "4"] in turn
DataRow(i) ==
    CASE i % 3 = 1 -> << <<"maechul", "aek">>, <<"1", ",", "2">>, <<"3">> >>
      [] i % 3 = 2 -> << <<"yeongeop", "iik">>, <<"(", "5", ")">>, <<"2">> >>
      [] OTHER     -> << <<"bigo">>, <<"1">>, <<"4">> >>

\* A statement of n rows: the header row and n-1 rows of data
PlainRows(n) == <<HeaderRow>> \o [i \in 1..(n - 1) |-> DataRow(i)]

\* The same statement with its title in a row of its own
TitledRows(n) == << <<TitleText>> >> \o PlainRows(n)

\* The sizes of the plain tables (one is a row short of MIN_ROWS) and of the
\* titled ones (the smallest is a row short with its title row counted)
RowCounts == (MIN_ROWS - 1)..MaxRows

TitledCounts == (MIN_ROWS - 2)..MaxRows

\* A table slot of a scoring document: no table, a plain or a titled one
TableSlot ==
    {<<>>} \cup {TableMarkup(PlainRows(n)) : n \in RowCounts}
           \cup {TableMarkup(TitledRows(n)) : n \in TitledCounts}

\* The text before, between and after the tables
PreText == {<<>>, TitleText, <<"LOREM">>, <<"<TABLE>">>}

MidText == {<<>>, <<"LOREM">>, TitleText \o <<"&nbsp;">>, ConsTitleText}

PostText == {<<>>, <<" ", "maechul", "aek", " ">>}

ScoringDocs ==
    {a \o t1 \o b \o t2 \o c :
        a \in PreText, t1 \in TableSlot, b \in MidText, t2 \in TableSlot, c \in PostText}

\* The rows drawn freely for a single-table document, cell by cell as in the
\* markup (an empty cell is <<>>):
\*   [구분, "", 전기]  [구분, 당기, 전기]  ["구 분", 당기]  ["(단위: 원)"]
\*   [매출액, "1,2", "3"]  [매출액, "", "3"]  [매출액, "1"]  ["", ""]  [비고]
\*   [당기순이익, "(5)", "^7"]  [손익계산서]
RowLib ==
    { << <<"gu", "bun">>, <<>>, <<"jeongi">> >>,
      HeaderRow,
      << <<"gu", " ", "bun">>, <<"danggi">> >>,
      << <<"(", "danwi", ":", " ", "won", ")">> >>,
      << <<"maechul", "aek">>, <<"1", ",", "2">>, <<"3">> >>,
      << <<"maechul", "aek">>, <<>>, <<"3">> >>,
      << <<"maechul", "aek">>, <<"1">> >>,
      << <<>>, <<>> >>,
      << <<"bigo">> >>,
      << <<"danggi", "sun", "iik">>, <<"(", "5", ")">>, <<"^", "7">> >>,
      << TitleText >> }

\* The rows at the top of a single-table document: none, one or two of RowLib
TopRows ==
    {<<>>} \cup {<<a>> : a \in RowLib} \cup {<<a, b>> : a \in RowLib, b \in RowLib}

\* [영업이익, "(5)"]
FillRow == << <<"yeongeop", "iik">>, <<"(", "5", ")">> >>

FillCounts == (MIN_ROWS - 2)..MaxFill

\* ["(단위: 원)"]
UnitRow == << <<"(", "danwi", ":", " ", "won", ")">> >>

\* Tables that leave no body row: the header row comes last, or only unit
\* legends and repetitions of the header row follow it
EmptyBodyRows ==
    {[i \in 1..f |-> FillRow] \o <<HeaderRow>> : f \in (MIN_ROWS - 1)..MaxFill}
    \cup {<<HeaderRow>> \o noise : noise \in [1..(MIN_ROWS - 1) -> {UnitRow, HeaderRow}]}

\* Tables longer than HEADER_SCAN rows whose only header row is the last row
\* the scan reaches or the first one it does not reach
LongRows ==
    {[i \in 1..n |-> FillRow] \o <<HeaderRow, FillRow>> : n \in {HEADER_SCAN - 1, HEADER_SCAN}}

\* Statements with a unit legend and a repetition of the header among their
\* rows of data; the second has the legend in the cell after a label
MixedRows ==
    { <<HeaderRow, DataRow(1), UnitRow, DataRow(2), HeaderRow, DataRow(3)>>,
      <<HeaderRow, DataRow(1), DataRow(2), << <<"bigo">> >> \o UnitRow, DataRow(3)>> }

\* The markup rows of a single-table document
TableRows ==
    {v \o [i \in 1..f |-> FillRow] : v \in TopRows, f \in FillCounts}
    \cup EmptyBodyRows \cup LongRows \cup MixedRows

\* The text before the table of a single-table document
TablePre == {<<>>, <<"LOREM", "maechul", "aek", " ">>, <<"ija", "suik", " ">>}

\* A table cut off before its end marker (none, a title row or a row of data
\* was written) and a whole statement after it
TruncatedDocs ==
    {<<"<TABLE>">> \o RowsMarkup(lost) \o TableMarkup(PlainRows(n)) :
        lost \in {<<>>, << <<TitleText>> >>, <<DataRow(3)>>}, n \in {MIN_ROWS - 1, MIN_ROWS}}

TableDocs ==
    {a \o TableMarkup(rows) : a \in TablePre, rows \in TableRows} \cup TruncatedDocs

\* The cells given to _parse_korean_number: every string of the atoms up to
\* MaxCellLen, and the cells of the documentation
CellAtoms == {"1", "5", "(", ")", "^", "%", ",", ".", "-", " "}

DocumentedCells ==
    { <<"(", "1", ",", "2", "3", "4", ")">>, <<"^", "5", "6", "7">>,
      <<"1", "2", ".", "5", "%">>, <<"(", "1", ",", "2", "3", "4", ".", "5", ")">>,
      <<"+", "1">> }

CellInputs == SeqsUpTo(CellAtoms, MaxCellLen) \cup DocumentedCells

\* The DataFrames given to to_numeric_df: a column 당기 of up to MaxBody cells
\* that are blank, a number or a word, alone or before a column of numbers
\* labelled 전기 or 당기 again.
ColumnCells == {<<>>, <<"1">>, <<"bigo">>}

DfInputs ==
    {[cols |-> << <<"danggi">> >>, body |-> [r \in 1..Len(c) |-> <<c[r]>>]] :
        c \in SeqsUpTo(ColumnCells, MaxBody)}
    \cup
    {[cols |-> << <<"danggi">>, second >>, body |-> [r \in 1..Len(c) |-> <<c[r], <<"5">>>>]] :
        c \in SeqsUpTo(ColumnCells, MaxBody) \ {<<>>}, second \in {<<"jeongi">>, <<"danggi">>}}

\* The outcome of a call that returned the DataFrame df, and of one that raised
Success(df) == [ok |-> TRUE, failure |-> "", df |-> df]

Failure(why) == [ok |-> FALSE, failure |-> why, df |-> NoTable]

\* The table parse_income_statement_df returned is written out as table markup,
\* its header row first and its body rows after it, and
\* parse_income_statement_df is called on that markup.
WriteBack ==
    /\ pc = "built"
    /\ results = <<>>
    /\ results' = <<Success(table)>>
    /\ raw' = TableMarkup(<<table.cols>> \o table.body)
    /\ doc' = <<>> /\ k' = 0 /\ candidates' = <<>> /\ best' = 0
    /\ table' = NoTable
    /\ pc' = "read"
    /\ UNCHANGED <<prefer, numeric, cell, parsed, sources, to_numeric>>

\* The state of a call that has not begun, on the document d
Fresh(d) ==
    /\ raw' = d
    /\ doc' = <<>> /\ k' = 0 /\ candidates' = <<>> /\ best' = 0
    /\ table' = NoTable /\ numeric' = NoNumeric

\* The outcome of the call that has ended: parser's DataFrame when the numeric
\* view is asked for, parse_income_statement_df's when not, or the failure
Outcome ==
    CASE pc = "done" -> Success(numeric)
      [] pc = "built" -> Success(table)
      [] OTHER -> Failure(pc)

\* A faulty variant of Collect, told from the batch entry point by C14: a
\* failure ends the batch.
CollectOrAbort ==
    /\ Len(results) < Len(sources)
    /\ pc \in {"done", "no_candidate", "numeric_error"} \/ (pc = "built" /\ ~to_numeric)
    /\ results' = Append(results, Outcome)
    /\ IF Outcome.ok /\ Len(results) + 1 < Len(sources)
       THEN Fresh(sources[Len(results) + 2]) /\ pc' = "read"
       ELSE Fresh(<<>>) /\ pc' = "batch_done"
    /\ UNCHANGED <<prefer, cell, parsed, sources, to_numeric>>

\* parse_many_income_statements(sources, to_numeric): the call on one source
\* has ended; its table or its failure is appended to the results, and the
\* next source is taken up or the batch ends.
Collect ==
    /\ Len(results) < Len(sources)
    /\ pc \in {"done", "no_candidate", "numeric_error"} \/ (pc = "built" /\ ~to_numeric)
    /\ results' = Append(results, Outcome)
    /\ IF Len(results) + 1 < Len(sources)
       THEN Fresh(sources[Len(results) + 2]) /\ pc' = "read"
       ELSE Fresh(<<>>) /\ pc' = "batch_done"
    /\ UNCHANGED <<prefer, cell, parsed, sources, to_numeric>>

\* to_numeric_df is applied only when the numeric view is asked for
NumericView == to_numeric /\ Numeric

\* The number of sources of a batch
MaxBatch == 3

\* The documents of a batch: a statement, a titled statement after a title
\* line, a title line before a table a row short of MIN_ROWS, and a statement
\* whose header names two columns alike
BatchDocs ==
    { TableMarkup(PlainRows(MIN_ROWS)),
      ConsTitleText \o TableMarkup(TitledRows(MIN_ROWS)),
      TitleText \o TableMarkup(PlainRows(MIN_ROWS - 1)),
      TableMarkup(<< << <<"gu", "bun">>, <<"danggi">>, <<"danggi">> >> >>
                  \o [i \in 1..(MIN_ROWS - 1) |-> DataRow(i)]) }

BatchInputs == [1..MaxBatch -> BatchDocs]

\* ------------------------------------------------------------------------
\* The specifications
\* ------------------------------------------------------------------------

Idle ==
    /\ doc = <<>> /\ k = 0 /\ candidates = <<>> /\ best = 0
    /\ table = NoTable /\ numeric = NoNumeric /\ parsed = NoneValue
    /\ sources = <<>> /\ to_numeric = TRUE /\ results = <<>>

\* parser(xml_path, prefer_consolidated) on a document with up to two tables
Init ==
    /\ raw \in ScoringDocs
    /\ prefer \in BOOLEAN
    /\ cell = <<>>
    /\ pc = "read"
    /\ Idle

Next == Read \/ Scan \/ NoCandidate \/ SelectBuild \/ Numeric

Spec == Init /\ [][Next]_vars

\* parser(xml_path, prefer_consolidated) on a document of one table
InitTable ==
    /\ raw \in TableDocs
    /\ prefer \in BOOLEAN
    /\ cell = <<>>
    /\ pc = "read"
    /\ Idle

SpecTable == InitTable /\ [][Next]_vars

\* parse_income_statement_df on a document of one table and again on the
\* markup of the table it returned
NextAgain == Read \/ Scan \/ NoCandidate \/ SelectBuild \/ WriteBack

SpecAgain == InitTable /\ [][NextAgain]_vars

\* parse_many_income_statements(sources, to_numeric)
InitBatch ==
    /\ sources \in BatchInputs
    /\ to_numeric \in BOOLEAN
    /\ results = <<>>
    /\ raw = sources[1]
    /\ prefer = TRUE
    /\ cell = <<>>
    /\ pc = "read"
    /\ doc = <<>> /\ k = 0 /\ candidates = <<>> /\ best = 0
    /\ table = NoTable /\ numeric = NoNumeric /\ parsed = NoneValue

NextBatch == Read \/ Scan \/ NoCandidate \/ SelectBuild \/ NumericView \/ Collect

SpecBatch == InitBatch /\ [][NextBatch]_vars

\* _parse_korean_number(cell)
InitNumber ==
    /\ raw = <<>>
    /\ prefer = TRUE
    /\ cell \in CellInputs
    /\ pc = "cell"
    /\ Idle

NextNumber == ParseCell

SpecNumber == InitNumber /\ [][NextNumber]_vars

\* to_numeric_df(df)
InitColumn ==
    /\ raw = <<>>
    /\ prefer = TRUE
    /\ cell = <<>>
    /\ pc = "built"
    /\ doc = <<>> /\ k = 0 /\ candidates = <<>> /\ best = 0
    /\ table \in DfInputs
    /\ numeric = NoNumeric /\ parsed = NoneValue
    /\ sources = <<>> /\ to_numeric = TRUE /\ results = <<>>

NextColumn == Numeric

SpecColumn == InitColumn /\ [][NextColumn]_vars

\* ------------------------------------------------------------------------
\* What the claims speak of
\* ------------------------------------------------------------------------

\* parse_income_statement_df has returned a table
Returned == pc \in {"built", "done", "numeric_error"}

\* the table regions of the document, in document order
Regions == extract_tables(doc)

\* the reject sentinel of score_table_rows, -1.0
Sentinel == <<0 - SIZE_CAP, 1>>

\* the scan of the document is over
Scanned == pc # "read" /\ k = Len(Regions)

\* C1: when the document holds no table region, or every table region of it
\* yields fewer than MIN_ROWS rows, the call ends in the no-candidate error
\* and no table is returned.
C1_NoCandidateError ==
    (pc # "read" /\ \A n \in 1..Len(Regions) : Len(extract_rows(Regions[n])) < MIN_ROWS)
        => /\ ~Returned
           /\ table = NoTable
           /\ best = 0
           /\ candidates = <<>>
           /\ (Scanned => ENABLED NoCandidate \/ pc = "no_candidate")

C1_Witness ==
    /\ pc = "no_candidate"
    /\ Len(Regions) = 2
    /\ \E n \in 1..2 : IsSub(TitleText, Regions[n])

\* C2: the table returned is built from the candidate of maximal total, and
\* of the candidates of that total from the earliest in the document.
C2_MaxScoreFirstWins ==
    Returned =>
        \E i \in 1..Len(candidates) :
            /\ candidates[i].at = best
            /\ table = build_dataframe(candidates[i].rows)
            /\ \A j \in 1..Len(candidates) : ~Less(candidates[i].total, candidates[j].total)
            /\ \A j \in 1..(i - 1) : Less(candidates[j].total, candidates[i].total)

\* two candidates tie at the maximum and the first is returned
C2_Witness ==
    /\ pc = "built"
    /\ Len(candidates) = 2
    /\ ~Less(candidates[1].total, candidates[2].total)
    /\ ~Less(candidates[2].total, candidates[1].total)
    /\ best = 1

\* the later candidate has the higher total and is returned
C2_WitnessLater ==
    /\ pc = "built"
    /\ Len(candidates) = 2
    /\ Less(candidates[1].total, candidates[2].total)
    /\ best = 2

\* C3: a region of fewer than MIN_ROWS extracted rows is no candidate and is
\* never the one returned, whatever its context and cells hold; a scanned
\* region of MIN_ROWS rows or more is a candidate with a total above the
\* sentinel.
C3_MinRows ==
    pc # "read" =>
        \A n \in 1..k :
            IF Len(extract_rows(Regions[n])) < MIN_ROWS
            THEN best # n /\ \A i \in 1..Len(candidates) : candidates[i].at # n
            ELSE \E i \in 1..Len(candidates) :
                    candidates[i].at = n /\ Less(Sentinel, candidates[i].total)

\* a short region with a title phrase and line items in it was passed over for
\* a candidate of lower context score
C3_Witness ==
    /\ pc = "built"
    /\ Len(Regions) = 2
    /\ \E n \in 1..2 :
        /\ Len(extract_rows(Regions[n])) < MIN_ROWS
        /\ AnyIn(TITLE_KEYWORDS, Regions[n])
        /\ AnyIn(LINE_ITEMS_COMMON, Regions[n])
        /\ best = 3 - n
        /\ ~AnyIn(TITLE_KEYWORDS, Regions[3 - n])

\* a region holds a title phrase
Titled(tbl) == AnyIn(TITLE_KEYWORDS, tbl)

\* C4: in a document of exactly one table region that holds a title phrase and
\* has MIN_ROWS rows or more in its markup, that region is the one selected,
\* whatever text stands before or after it: the call does not end in the
\* no-candidate error.
C4_TitledTableSelected ==
    (Scanned /\ Len(Regions) = 1 /\ Titled(Regions[1])
        /\ Len(TR_RE(Regions[1])) >= MIN_ROWS)
    => /\ pc # "no_candidate"
       /\ Len(candidates) = 1
       /\ (Returned => best = 1)

\* a titled table of MIN_ROWS rows, one of them blank, after a paragraph of
\* text: the call ended in the no-candidate error
C4_Rejected ==
    /\ pc = "no_candidate"
    /\ Len(Regions) = 1
    /\ Titled(Regions[1])
    /\ Len(TR_RE(Regions[1])) >= MIN_ROWS
    /\ raw[1] = "LOREM"

\* a row without a title phrase
NoTitle(r) == ~AnyIn(TITLE_KEYWORDS, Joined(r))

\* the line-item content of a region: its rows but the title's
LineItemRows(tbl) == SelectSeq(extract_rows(tbl), NoTitle)

\* the document is two tables of the same line-item content, of MIN_ROWS rows
\* or more each, and only the t-th holds a title phrase
TwinTables(t) ==
    /\ Len(Regions) = 2
    /\ Titled(Regions[t])
    /\ ~Titled(Regions[3 - t])
    /\ LineItemRows(Regions[1]) = LineItemRows(Regions[2])
    /\ \A n \in 1..2 : Len(extract_rows(Regions[n])) >= MIN_ROWS

\* C5: of two tables of identical line-item content of which exactly one holds
\* a title phrase, the titled one has the strictly higher total and is the
\* one selected, in either order of the two.
C5_TitledTwinWins ==
    \A t \in 1..2 :
        (Scanned /\ TwinTables(t))
        => /\ Len(candidates) = 2
           /\ Less(candidates[3 - t].total, candidates[t].total)
           /\ (Returned => best = t)

\* the document is the titled table and, right after it, the untitled one,
\* which was selected
C5_UntitledSelected ==
    /\ pc = "built"
    /\ raw = TableMarkup(TitledRows(MIN_ROWS)) \o TableMarkup(PlainRows(MIN_ROWS))
    /\ TwinTables(1)
    /\ best = 2
    /\ Less(candidates[1].total, candidates[2].total)

\* the cells of a row-delimited block as the markup has them, the empty ones
\* too
SourceCells(tr) ==
    LET cells == CELL_RE(tr)
    IN  [n \in 1..Len(cells) |-> strip_tags_keep_text(cells[n])]

\* a row-delimited block that extract_rows turns into a row
RowBlock(tr) == CleanedCells(tr) # <<>>

\* the header row of the selected region as the markup has it
SourceHeader ==
    LET tbl == Regions[best]
    IN  SourceCells(SelectSeq(TR_RE(tbl), RowBlock)[find_header_index(extract_rows(tbl)) + 1])

\* C6: in the header of the table returned, every empty cell of the header
\* row has become a placeholder naming its position (counted from 0 or from 1)
\* and every other cell of the header row stands with its literal text at its
\* own position.
C6_HeaderSynthesis ==
    Returned =>
        /\ Len(table.cols) >= Len(SourceHeader)
        /\ \A j \in 1..Len(SourceHeader) :
            IF SourceHeader[j] = <<>>
            THEN table.cols[j] \in {Placeholder(j - 1), Placeholder(j)}
            ELSE table.cols[j] = SourceHeader[j]

\* the header row [구분, "", 전기] was returned with 전기 in the second place
C6_HeaderShifted ==
    /\ pc = "built"
    /\ SourceHeader = << <<"gu", "bun">>, <<>>, <<"jeongi">> >>
    /\ table.cols[2] = <<"jeongi">>

\* C7: in the table build_dataframe returns every body row has as many cells
\* as the header, however ragged the rows it was given.
C7_RowsMatchHeader ==
    Returned => \A n \in 1..Len(table.body) : Len(table.body[n]) = Len(table.cols)

\* rows of differing lengths went in, and a body row shorter than the header
\* came out filled with an empty last cell
C7_Witness ==
    /\ pc = "built"
    /\ Len(table.cols) >= 3
    /\ \E a, b \in 1..Len(candidates[1].rows) :
            Len(candidates[1].rows[a]) < Len(candidates[1].rows[b])
    /\ \E n \in 1..Len(table.body) : table.body[n][Len(table.cols)] = <<>>

\* an unsigned digit string with optional thousands commas and an optional
\* decimal part; e is the end of its integer part
IsUnsignedNumeral(d) ==
    \E e \in 1..Len(d) :
        /\ d[1] \in DigitAtoms
        /\ d[e] \in DigitAtoms
        /\ \A n \in 1..e : d[n] \in DigitAtoms \cup {","}
        /\ \A n \in 1..(e - 1) : d[n] = "," => d[n + 1] # ","
        /\ \/ e = Len(d)
           \/ /\ e + 2 <= Len(d)
              /\ d[e + 1] = "."
              /\ \A n \in (e + 2)..Len(d) : d[n] \in DigitAtoms

IsDigitAtom(a) == a \in DigitAtoms

\* the value such a string writes
ValueOf(d) ==
    [ok |-> TRUE,
     num |-> IntOf(SelectSeq(d, IsDigitAtom)),
     scale |-> IF \E n \in 1..Len(d) : d[n] = "."
               THEN Len(d) - (CHOOSE n \in 1..Len(d) : d[n] = ".")
               ELSE 0]

Minus(v) == [ok |-> TRUE, num |-> 0 - v.num, scale |-> v.scale]

\* C8: for every unsigned digit string d, with thousands commas and a decimal
\* part or without, _parse_korean_number gives minus the value of d for "(d)"
\* and for "△d", and the value of d for "d%".
C8_SignAndPercent ==
    pc = "parsed" =>
        /\ (Len(cell) >= 3 /\ cell[1] = "(" /\ cell[Len(cell)] = ")"
                /\ IsUnsignedNumeral(SubSeq(cell, 2, Len(cell) - 1)))
           => parsed = Minus(ValueOf(SubSeq(cell, 2, Len(cell) - 1)))
        /\ (Len(cell) >= 2 /\ cell[1] = "^" /\ IsUnsignedNumeral(Tail(cell)))
           => parsed = Minus(ValueOf(Tail(cell)))
        /\ (Len(cell) >= 2 /\ cell[Len(cell)] = "%"
                /\ IsUnsignedNumeral(SubSeq(cell, 1, Len(cell) - 1)))
           => parsed = ValueOf(SubSeq(cell, 1, Len(cell) - 1))

\* "(1,234)" gave -1234.0
C8_Witness ==
    /\ pc = "parsed"
    /\ cell = <<"(", "1", ",", "2", "3", "4", ")">>
    /\ parsed = [ok |-> TRUE, num |-> 0 - 1234, scale |-> 0]

\* s without the atoms of drop
Without(s, drop) ==
    LET Keep(a) == a \notin drop
    IN  SelectSeq(s, Keep)

DropTrailingPercent(t) ==
    IF t # <<>> /\ t[Len(t)] = "%" THEN SubSeq(t, 1, Len(t) - 1) ELSE t

\* The text of a cell after removing spaces, negative markers, a trailing
\* percent sign and thousands separators, the parentheses read as markers
\* wherever they stand, or only as the pair that encloses the text
TokenLoose(s) ==
    Without(DropTrailingPercent(Without(s, {" ", "^", "(", ")"})), {","})

TokenPaired(s) ==
    LET t == Without(s, {" ", "^"})
        u == IF Len(t) >= 2 /\ t[1] = "(" /\ t[Len(t)] = ")"
             THEN SubSeq(t, 2, Len(t) - 1) ELSE t
    IN  Without(DropTrailingPercent(u), {","})

\* [sign]digits[.digits]; sg is the length of the sign, e the end of the
\* integer part
IsSignedNumeral(t) ==
    \E sg \in 0..1 : \E e \in (sg + 1)..Len(t) :
        /\ sg = 1 => t[1] \in {"-", "+"}
        /\ \A n \in (sg + 1)..e : t[n] \in DigitAtoms
        /\ \/ e = Len(t)
           \/ /\ e + 2 <= Len(t)
              /\ t[e + 1] = "."
              /\ \A n \in (e + 2)..Len(t) : t[n] \in DigitAtoms

\* C9: _parse_korean_number gives the missing value for the empty cell, for
\* the lone dash, and for every cell whose text, after removing spaces,
\* negative markers, a trailing percent sign and thousands separators, is not
\* [sign]digits[.digits] (under either reading of the parentheses).
C9_MissingWhenNoMatch ==
    pc = "parsed" =>
        ((\/ cell = <<>>
          \/ cell = <<"-">>
          \/ ~IsSignedNumeral(TokenLoose(cell))
          \/ ~IsSignedNumeral(TokenPaired(cell)))
         => parsed = NoneValue)

\* the lone dash gave the missing value
C9_Witness ==
    /\ pc = "parsed"
    /\ cell = <<"-">>
    /\ parsed = NoneValue

\* the rows of column j whose cell parses
ParsingRows(df, j) ==
    {r \in 1..Len(df.body) : _parse_korean_number(df.body[r][j]).ok}

\* C10: to_numeric_df returns the table with a column made numeric exactly
\* when half or more of its body cells parse, and otherwise, or when it has no
\* body cell, as it was.
C10_PromotionThreshold ==
    pc \in {"done", "numeric_error"} =>
        /\ numeric.ok
        /\ numeric.cols = table.cols
        /\ Len(numeric.body) = Len(table.body)
        /\ \A j \in 1..Len(table.cols) : \A r \in 1..Len(table.body) :
            numeric.body[r][j] =
                IF 2 * Cardinality(ParsingRows(table, j)) >= Len(table.body)
                THEN NumberCell(_parse_korean_number(table.body[r][j]))
                ELSE TextCell(table.body[r][j])

\* a column of six cells of which three parse, beside a column of the same
\* name: to_numeric_df raised
C10_Raised ==
    /\ pc = "numeric_error"
    /\ Len(table.body) = 6
    /\ Cardinality(ParsingRows(table, 1)) = 3

\* column j of the result holds no text: every cell is the number its source
\* cell parses to, or the missing marker
PromotedWholesale(j) ==
    \A r \in 1..Len(table.body) :
        /\ numeric.body[r][j].kind \in {"num", "nan"}
        /\ numeric.body[r][j] = NumberCell(_parse_korean_number(table.body[r][j]))

\* column j of the result is the source column cell for cell
LeftAsText(j) ==
    \A r \in 1..Len(table.body) : numeric.body[r][j] = TextCell(table.body[r][j])

\* C11: in the output of to_numeric_df every column is promoted wholesale
\* (numbers and missing markers only) or is the input column cell for cell; no
\* column mixes parsed numbers with original text.
C11_AllOrNothing ==
    pc = "done" =>
        /\ Len(numeric.body) = Len(table.body)
        /\ \A j \in 1..Len(table.cols) : PromotedWholesale(j) \/ LeftAsText(j)

\* a promoted column in which a word became the missing marker beside a number
C11_Witness ==
    /\ pc = "done"
    /\ \E r1, r2 \in 1..Len(table.body) :
        /\ numeric.body[r1][1].kind = "num"
        /\ numeric.body[r2][1].kind = "nan"
        /\ table.body[r2][1] = <<"bigo">>

\* C12: for a table whose header has two or more columns of the same name
\* to_numeric_df completes without error, returns the columns in the same
\* number and order and the same number of rows, and decides the promotion of
\* each of the same-named columns from that column's own cells.
C12_DuplicateLabels ==
    (pc \in {"done", "numeric_error"} /\ HasDuplicateLabel(table.cols)) =>
        /\ pc = "done"
        /\ numeric.ok
        /\ numeric.cols = table.cols
        /\ Len(numeric.body) = Len(table.body)
        /\ \A j \in 1..Len(table.cols) :
            IF Len(table.body) > 0
               /\ 2 * Cardinality(ParsingRows(table, j)) >= Len(table.body)
            THEN PromotedWholesale(j)
            ELSE LeftAsText(j)

\* the header 당기, 당기 over one row of cells: to_numeric_df raised
C12_Raised ==
    /\ pc = "numeric_error"
    /\ table.cols = << <<"danggi">>, <<"danggi">> >>
    /\ Len(table.body) = 1
    /\ ~numeric.ok

\* the second extraction, on the markup of the first one's table, has ended
SecondEnded == Len(results) = 1 /\ pc \in {"built", "no_candidate"}

\* C13: when extraction succeeds with the table T, extraction of the markup
\* of T (header row, then body rows) succeeds too and returns the header of T
\* and as many body rows as T has.
C13_Idempotent ==
    SecondEnded =>
        /\ pc = "built"
        /\ table.cols = results[1].df.cols
        /\ Len(table.body) = Len(results[1].df.body)

\* the first extraction returned a header and three body rows, and the
\* extraction of their markup ended in the no-candidate error
C13_SecondRejected ==
    /\ pc = "no_candidate"
    /\ Len(results) = 1
    /\ Len(results[1].df.body) = MIN_ROWS - 2

\* The document d, of one table region at most, has a candidate
HasCandidate(d) ==
    \E tbl \in {extract_tables(normalize_text(d))[n] :
                    n \in 1..Len(extract_tables(normalize_text(d)))} :
        Len(TR_RE(tbl)) >= MIN_ROWS /\ Len(extract_rows(tbl)) >= MIN_ROWS

\* the header extraction returns for such a document
HeaderOf(d) ==
    build_dataframe(extract_rows(extract_tables(normalize_text(d))[1])).cols

\* C14: the batch entry point returns one result per source in the order of
\* the sources; the entry of a source whose extraction fails is a captured
\* failure, the entry of any other source is its table, and a failure does
\* not keep the later sources from being processed.
C14_BatchOrder ==
    /\ Len(results) <= Len(sources)
    /\ pc = "batch_done" => Len(results) = Len(sources)
    /\ \A i \in 1..Len(results) :
        IF HasCandidate(sources[i])
           /\ ~(to_numeric /\ HasDuplicateLabel(HeaderOf(sources[i])))
        THEN results[i].ok /\ results[i].df.cols = HeaderOf(sources[i])
        ELSE ~results[i].ok /\ results[i].failure # ""

\* three sources of which the second fails: three results, the second a
\* failure, the first and the third tables
C14_Witness ==
    /\ pc = "batch_done"
    /\ Len(sources) >= 3
    /\ Len(results) = Len(sources)
    /\ results[1].ok
    /\ ~results[2].ok
    /\ results[3].ok
    /\ results[1].df.cols # results[3].df.cols

\* the rows of the candidate that was selected
WinnerRows == (CHOOSE c \in {candidates[i] : i \in 1..Len(candidates)} : c.at = best).rows

\* No row of rows is left after the header and the noise are taken away: the
\* header is the last row, or every row after it holds the unit marker or
\* repeats the header.
NoRowsLeft(rows) ==
    \A n \in (find_header_index(rows) + 2)..Len(rows) :
        \/ \E c \in 1..Len(rows[n]) : IsSub(UNIT, rows[n][c])
        \/ IsRedundantHeader(Pad(rows[n], MaxLen(rows)),
                             Pad(rows[find_header_index(rows) + 1], MaxLen(rows)))

\* C15: when the selected candidate has no rows left after header and noise
\* removal, extraction returns a table of zero body rows under a header, and
\* the numeric view of it is returned too: no error is raised.
C15_EmptyBody ==
    (Returned /\ NoRowsLeft(WinnerRows)) =>
        /\ pc # "numeric_error"
        /\ table.body = <<>>
        /\ Len(table.cols) >= 1
        /\ pc = "done" => numeric.ok /\ numeric.cols = table.cols /\ numeric.body = <<>>

\* the header was found at the last row of the candidate and the table came
\* back, also from to_numeric_df, with no body row
C15_Witness ==
    /\ pc = "done"
    /\ Len(WinnerRows) >= MIN_ROWS
    /\ find_header_index(WinnerRows) = Len(WinnerRows) - 1
    /\ table.body = <<>>
    /\ numeric.ok

\* the n-th region and its context window
RegionAt(n) == SubSeq(doc, TABLE_RE(doc)[n][1], TABLE_RE(doc)[n][2])

WindowAt(n) == Context(doc, TABLE_RE(doc)[n][1])

\* the preferred-variant marker occurs in the window or the text of region n
MarkerAt(n) == IsSub(CONSOLIDATED, WindowAt(n)) \/ IsSub(CONSOLIDATED, RegionAt(n))

\* the score of region n without the preference signal: the title and the
\* line-item signals and the row score
Unpreferred(n) ==
    Total(50 * CountEither(TITLE_KEYWORDS, WindowAt(n), RegionAt(n))
          + 15 * CountEither(LINE_ITEMS_COMMON, WindowAt(n), RegionAt(n))
          + 18 * CountEither(LINE_ITEMS_FINANCE, WindowAt(n), RegionAt(n)),
          score_table_rows(extract_rows(RegionAt(n))))

\* a score raised by the boost of 2.0
Boosted(t) == <<t[1] + 2 * SIZE_CAP * t[2], t[2]>>

\* C16: the preference signal is one additive boost under the caller's flag.
\* When a region has just been scanned: with the flag off the total of its
\* candidate is its total without the signal, whether the marker occurs or
\* not; with the flag on it is that total plus the boost when the marker
\* occurs in its window or its text and that total otherwise; and the region
\* is a candidate or not by its rows alone.
C16_PreferenceAdditive ==
    (pc = "scan" /\ k >= 1) =>
        IF Len(extract_rows(RegionAt(k))) < MIN_ROWS
        THEN \A i \in 1..Len(candidates) : candidates[i].at # k
        ELSE /\ candidates # <<>>
             /\ candidates[Len(candidates)].at = k
             /\ candidates[Len(candidates)].total =
                  IF prefer /\ MarkerAt(k) THEN Boosted(Unpreferred(k))
                  ELSE Unpreferred(k)

\* the second of two candidates has the marker before it and the first has
\* not; the flag is on and the second carries the boost
C16_Witness ==
    /\ pc = "scan"
    /\ prefer
    /\ k = 2
    /\ Len(candidates) = 2
    /\ ~MarkerAt(1)
    /\ MarkerAt(2)
    /\ candidates[2].total = Boosted(Unpreferred(2))

\* The document read from the file with `term` written into it for the region
\* scanned last: in front of the region ("window") or at the start of the
\* text of its first cell ("cells").
WithTerm(term, where) ==
    LET s == TABLE_RE(raw)[k][1]
        p == IF where = "window" THEN s - 1 ELSE FirstAt(raw, "<TD>", s)
    IN  normalize_text(SubSeq(raw, 1, p) \o <<" ">> \o term \o <<" ">>
                       \o SubSeq(raw, p + 1, Len(raw)))

\* the total the loop of parse_income_statement_df gives to the k-th region of d
TotalIn(d) == ScoreMatch(d, TABLE_RE(d)[k], prefer, <<>>, k)[1].total

\* the distinct terms of the list ks found in the window or the text of the
\* k-th region of d
Present(ks, d) ==
    LET m == TABLE_RE(d)[k]
    IN  {ks[n] : n \in {i \in 1..Len(ks) : \/ IsSub(ks[i], Context(d, m[1]))
                                          \/ IsSub(ks[i], SubSeq(d, m[1], m[2]))}}

LINE_ITEMS == LINE_ITEMS_COMMON \o LINE_ITEMS_FINANCE

\* writing t makes one more distinct title phrase present and no line item
OneMoreTitle(t, where) ==
    /\ t \notin Present(TITLE_KEYWORDS, doc)
    /\ Present(TITLE_KEYWORDS, WithTerm(t, where)) = Present(TITLE_KEYWORDS, doc) \cup {t}
    /\ Present(LINE_ITEMS, WithTerm(t, where)) = Present(LINE_ITEMS, doc)

\* writing l makes one more distinct line-item term present and no title
OneMoreLineItem(l, where) ==
    /\ l \notin Present(LINE_ITEMS, doc)
    /\ Present(LINE_ITEMS, WithTerm(l, where)) = Present(LINE_ITEMS, doc) \cup {l}
    /\ Present(TITLE_KEYWORDS, WithTerm(l, where)) = Present(TITLE_KEYWORDS, doc)

Places == {"window", "cells"}

\* C17: title matches weigh more than line-item matches.  For a candidate of
\* MIN_ROWS rows or more, one more distinct title phrase raises the total
\* strictly more than one more distinct line-item term does, wherever either
\* is written (the context window or the cells of the table): of the two
\* documents the one with the title phrase has the higher total.
C17_TitleOutweighsLineItem ==
    (pc = "scan" /\ k >= 1 /\ Len(extract_rows(RegionAt(k))) >= MIN_ROWS) =>
        \A wl \in Places, wt \in Places :
            \A ti \in 1..Len(TITLE_KEYWORDS), li \in 1..Len(LINE_ITEMS) :
                (OneMoreTitle(TITLE_KEYWORDS[ti], wt) /\ OneMoreLineItem(LINE_ITEMS[li], wl)) =>
                    Less(TotalIn(WithTerm(LINE_ITEMS[li], wl)), TotalIn(WithTerm(TITLE_KEYWORDS[ti], wt)))

\* the plain statement of MIN_ROWS rows has been scored: with 이자이익 in its
\* first cell it totals more than with 손익계산서 there, or in front of it
C17_LineItemOutweighs ==
    /\ pc = "scan"
    /\ k = 1
    /\ raw = TableMarkup(PlainRows(MIN_ROWS))
    /\ Len(candidates) = 1
    /\ OneMoreTitle(TitleText, "cells")
    /\ OneMoreLineItem(<<"ija", "iik">>, "cells")
    /\ Less(TotalIn(WithTerm(TitleText, "cells")), TotalIn(WithTerm(<<"ija", "iik">>, "cells")))
    /\ Less(TotalIn(WithTerm(TitleText, "window")), TotalIn(WithTerm(<<"ija", "iik">>, "cells")))

\* the terms of a list as a set
TermsOf(ks) == {ks[n] : n \in 1..Len(ks)}

\* the context score of the region scanned last when every distinct term
\* present counts once: 5.0 for a title phrase, 1.5 for a generic line item,
\* 1.8 for a finance-sector one, `both` for a term found in both lists, and
\* the boost under the caller's flag
OncePerTerm(both) ==
    LET generic == Present(LINE_ITEMS_COMMON, doc)
        finance == Present(LINE_ITEMS_FINANCE, doc)
    IN  50 * Cardinality(Present(TITLE_KEYWORDS, doc))
        + 15 * Cardinality(generic \ finance)
        + 18 * Cardinality(finance \ generic)
        + both * Cardinality(generic \cap finance)
        + (IF prefer /\ MarkerAt(k) THEN 20 ELSE 0)

\* C18: in the context score each distinct vocabulary term that is present
\* contributes exactly one fixed weight, however often it occurs and whether in
\* the window, the table text or both: 1.5 for a generic term, 1.8 for a
\* finance-sector term, and no term is counted under both weights.
C18_OneWeightPerTerm ==
    (pc = "scan" /\ k >= 1 /\ Len(extract_rows(RegionAt(k))) >= MIN_ROWS) =>
        /\ candidates # <<>>
        /\ \E both \in {15, 18} :
             candidates[Len(candidates)].total
                = Total(OncePerTerm(both), score_table_rows(extract_rows(RegionAt(k))))

\* 이자수익 stands before the table, in both lists: the total holds 1.5 and 1.8
\* for it
C18_CountedTwice ==
    /\ pc = "scan"
    /\ k = 1
    /\ Len(candidates) = 1
    /\ <<"ija", "suik">> \in Present(LINE_ITEMS_COMMON, doc) \cap Present(LINE_ITEMS_FINANCE, doc)
    /\ ~IsSub(<<"ija", "suik">>, RegionAt(1))
    /\ candidates[1].total = Total(OncePerTerm(15 + 18), score_table_rows(candidates[1].rows))

\* a cell with at least one digit together with at least one grouping
\* separator, parenthesis or negative marker
DigitsWithMark(c) ==
    /\ \E n \in 1..Len(c) : c[n] \in DigitAtoms
    /\ \E n \in 1..Len(c) : c[n] \in {",", "(", ")", "-", "^"}

\* a cell with a digit in it
HasDigit(c) == \E n \in 1..Len(c) : c[n] \in DigitAtoms

\* the cells of rows, as <<row, column>>
CellsOf(rows) ==
    {rc \in (1..Len(rows)) \X (1..MaxLen(rows)) : rc[2] <= Len(rows[rc[1]])}

\* the number of cells with a digit and a mark, and of cells with a digit
MarkedCount(rows) ==
    Cardinality({rc \in CellsOf(rows) : DigitsWithMark(rows[rc[1]][rc[2]])})

DigitCount(rows) ==
    Cardinality({rc \in CellsOf(rows) : HasDigit(rows[rc[1]][rc[2]])})

\* the row score of a candidate of which `counted` cells count for the density
RowScoreCounting(rows, counted) ==
    LET flat == Join([n \in 1..Len(rows) |-> Joined(rows[n])], <<" ">>)
        li_hits == CountIn(LINE_ITEMS_COMMON, flat) + CountIn(LINE_ITEMS_FINANCE, flat)
        T == Max2(1, SumLen(rows))
    IN  << T * (8 * SIZE_CAP * li_hits
                + 2 * (SIZE_CAP \div 10) * HeaderBonus(rows, 1, 0)
                + Min2(Len(rows), SIZE_CAP))
           + 5 * SIZE_CAP * counted,
           T >>

\* C19: a cell counts as numeric-shaped for the density signal if and only if
\* it holds at least one digit together with at least one grouping separator,
\* parenthesis or negative marker (minus or △); a cell of digits and other
\* text only, such as a bare year, is not counted.  The total of a candidate
\* is the one in which exactly those cells count.
C19_NumericShape ==
    (pc = "scan" /\ k >= 1 /\ Len(extract_rows(RegionAt(k))) >= MIN_ROWS) =>
        /\ candidates # <<>>
        /\ LET rows == candidates[Len(candidates)].rows
           IN  candidates[Len(candidates)].total
                 = Total(score_table_context(WindowAt(k), RegionAt(k), prefer),
                         RowScoreCounting(rows, MarkedCount(rows)))

\* a candidate with the cell "3" in it: its total counts every cell that has a
\* digit, more cells than those with a separator, parenthesis or marker
C19_BareDigitsCounted ==
    /\ pc = "scan"
    /\ k = 1
    /\ Len(candidates) = 1
    /\ \E r \in 1..Len(candidates[1].rows) :
          \E c \in 1..Len(candidates[1].rows[r]) : candidates[1].rows[r][c] = <<"3">>
    /\ DigitCount(candidates[1].rows) > MarkedCount(candidates[1].rows)
    /\ candidates[1].total
         = Total(score_table_context(WindowAt(1), RegionAt(1), prefer),
                 RowScoreCounting(candidates[1].rows, DigitCount(candidates[1].rows)))

\* the 0-based indices below HEADER_SCAN of the rows with header vocabulary or
\* a fiscal-period token
HeaderLikeBelowScan(rows) ==
    {i \in 0..(Min2(Len(rows), HEADER_SCAN) - 1) : LooksLikeHeader(rows[i + 1])}

\* the column labels build_dataframe makes of the row at the 0-based index h,
\* before the trailing empty columns are dropped
LabelsOf(rows, h) ==
    [j \in 1..MaxLen(rows) |->
        TidyLabel(IF j <= Len(rows[h + 1]) /\ rows[h + 1][j] # <<>>
                  THEN rows[h + 1][j] ELSE Placeholder(j - 1))]

\* C20: find_header_index returns the smallest index below HEADER_SCAN whose
\* row holds header vocabulary or a fiscal-period token, and zero when none of
\* the first HEADER_SCAN rows does; a row at index HEADER_SCAN or later is
\* never the header, and the result is a valid index of the non-empty row
\* list.  The reconstructed table has its labels from the row at that index
\* and its body from the rows after it.
C20_HeaderIndex ==
    pc = "built" =>
        LET rows == WinnerRows
            hits == HeaderLikeBelowScan(rows)
            h == find_header_index(rows)
        IN  /\ rows # <<>>
            /\ h \in 0..(Len(rows) - 1)
            /\ h < HEADER_SCAN
            /\ IF hits = {} THEN h = 0
               ELSE h \in hits /\ \A i \in hits : h <= i
            /\ table.cols = SubSeq(LabelsOf(rows, h), 1, Len(table.cols))
            /\ Len(table.body) <= Len(rows) - h - 1

\* the only header row of the selected table is at index HEADER_SCAN: row zero
\* gives the labels (and 열2 the third one) and the header row itself is a row
\* of the body
C20_Witness ==
    /\ pc = "built"
    /\ Len(WinnerRows) > HEADER_SCAN
    /\ HeaderLikeBelowScan(WinnerRows) = {}
    /\ LooksLikeHeader(WinnerRows[HEADER_SCAN + 1])
    /\ find_header_index(WinnerRows) = 0
    /\ table.cols = WinnerRows[1] \o <<Placeholder(2)>>
    /\ Len(table.body) = Len(WinnerRows) - 1
    /\ table.body[HEADER_SCAN] = WinnerRows[HEADER_SCAN + 1]

\* the only header row is at index HEADER_SCAN - 1, the last one scanned: it
\* is the header
C20_WitnessLast ==
    /\ pc = "built"
    /\ Len(WinnerRows) > HEADER_SCAN
    /\ HeaderLikeBelowScan(WinnerRows) = {HEADER_SCAN - 1}
    /\ find_header_index(WinnerRows) = HEADER_SCAN - 1
    /\ table.cols = SubSeq(WinnerRows[HEADER_SCAN], 1, Len(table.cols))
    /\ Len(table.body) = Len(WinnerRows) - HEADER_SCAN

\* a is b with some of its entries left out, the others in b's order
RECURSIVE IsOrderedSubseq(_, _)
IsOrderedSubseq(a, b) ==
    IF a = <<>> THEN TRUE
    ELSE IF b = <<>> THEN FALSE
    ELSE IF Head(a) = Head(b) THEN IsOrderedSubseq(Tail(a), Tail(b))
    ELSE IsOrderedSubseq(a, Tail(b))

\* a row of the selected candidate as a row of the returned table: padded to
\* the widest row and cut to the columns kept
BodyForm(r) == SubSeq(Pad(r, MaxLen(WinnerRows)), 1, Len(table.cols))

\* the rows of the selected candidate after its header row, in that form
AfterHeader ==
    [n \in 1..(Len(WinnerRows) - find_header_index(WinnerRows) - 1) |->
        BodyForm(WinnerRows[find_header_index(WinnerRows) + 1 + n])]

\* the row holds 단위 in some cell
HasUnit(r) == \E j \in 1..Len(r) : IsSub(UNIT, r[j])

\* C21: no body row of the table build_dataframe returns holds the unit marker
\* in any cell, and the body rows are rows after the header in their order.
C21_NoUnitRows ==
    pc = "built" =>
        /\ \A n \in 1..Len(table.body) : ~HasUnit(table.body[n])
        /\ IsOrderedSubseq(table.body, AfterHeader)

\* a legend row lies between two rows after the header: it is gone, the two
\* rows are next to each other in the body
C21_Witness ==
    /\ pc = "built"
    /\ \E n \in 2..(Len(WinnerRows) - 1) :
          /\ n > find_header_index(WinnerRows) + 2
          /\ HasUnit(WinnerRows[n])
          /\ ~HasUnit(WinnerRows[n - 1])
          /\ ~HasUnit(WinnerRows[n + 1])
          /\ \E m \in 1..(Len(table.body) - 1) :
                /\ table.body[m] = BodyForm(WinnerRows[n - 1])
                /\ table.body[m + 1] = BodyForm(WinnerRows[n + 1])
                /\ m = n - find_header_index(WinnerRows) - 2

\* the header row of the selected candidate
HeaderRowOf == WinnerRows[find_header_index(WinnerRows) + 1]

\* the cells of the row that are not empty, and those of them that repeat a
\* cell of the header row
NonEmptyCells(r) == {j \in 1..Len(r) : r[j] # <<>>}

RepeatingCells(r) ==
    {j \in NonEmptyCells(r) : \E m \in 1..Len(HeaderRowOf) : HeaderRowOf[m] = r[j]}

\* the row holds header vocabulary and repeats the header in at least half of
\* its non-empty cells
RepeatsHeader(r) ==
    /\ AnyIn(HEADER_HINTS, Joined(r))
    /\ NonEmptyCells(r) # {}
    /\ 2 * Cardinality(RepeatingCells(r)) >= Cardinality(NonEmptyCells(r))

\* the rows of rs that are neither a unit legend nor a repetition of the
\* header, as rows of the returned table
RECURSIVE DataRowsOf(_)
DataRowsOf(rs) ==
    IF rs = <<>> THEN <<>>
    ELSE IF HasUnit(Head(rs)) \/ RepeatsHeader(Head(rs)) THEN DataRowsOf(Tail(rs))
    ELSE <<BodyForm(Head(rs))>> \o DataRowsOf(Tail(rs))

\* the rows of the selected candidate after its header row, as extracted
RowsAfterHeader ==
    SubSeq(WinnerRows, find_header_index(WinnerRows) + 2, Len(WinnerRows))

\* C22: a body row is dropped as a repeated header if and only if it
\* duplicates header vocabulary across at least half of its non-empty cells:
\* the padding cells do not count, and a row whose non-empty cells do not
\* repeat header cells is kept.  The body of the returned table is made of
\* exactly the other rows after the header (the unit legends apart).
C22_RepeatedHeaderDropped ==
    pc = "built" => table.body = DataRowsOf(RowsAfterHeader)

\* under the header [구분, 당기, 전기] the row ["구 분", 당기] repeats the header
\* in one of its two cells and is a row of the body all the same
C22_RepetitionKept ==
    /\ pc = "built"
    /\ HeaderRowOf = HeaderRow
    /\ Len(table.body) >= 1
    /\ RowsAfterHeader[1] = << <<"gu", " ", "bun">>, <<"danggi">> >>
    /\ RepeatsHeader(RowsAfterHeader[1])
    /\ table.body[1] = BodyForm(RowsAfterHeader[1])

\* the rows after the header that build_dataframe keeps, as extracted
RECURSIVE KeptAfterHeader(_)
KeptAfterHeader(rs) ==
    IF rs = <<>> THEN <<>>
    ELSE IF \/ HasUnit(Head(rs))
            \/ IsRedundantHeader(Pad(Head(rs), MaxLen(WinnerRows)),
                                 Pad(HeaderRowOf, MaxLen(WinnerRows)))
         THEN KeptAfterHeader(Tail(rs))
    ELSE <<Head(rs)>> \o KeptAfterHeader(Tail(rs))

\* C23: after reconstruction the table has no trailing column that is empty
\* in every row: one column is left or the last column has a non-empty body
\* cell.  What is removed is the whole run of trailing columns empty in every
\* kept row and nothing else: the labels and the rows are those of the padded
\* table cut after the last column kept.
C23_TrailingColumns ==
    pc = "built" =>
        LET w == Len(table.cols)
            kept == KeptAfterHeader(RowsAfterHeader)
        IN  /\ w >= 1
            /\ w <= MaxLen(WinnerRows)
            /\ w = 1 \/ \E n \in 1..Len(table.body) : table.body[n][w] # <<>>
            /\ table.cols = SubSeq(LabelsOf(WinnerRows, find_header_index(WinnerRows)), 1, w)
            /\ Len(table.body) = Len(kept)
            /\ \A n \in 1..Len(kept) :
                  /\ table.body[n] = SubSeq(Pad(kept[n], MaxLen(WinnerRows)), 1, w)
                  /\ \A j \in (w + 1)..Len(kept[n]) : kept[n][j] = <<>>

\* a table three cells wide whose kept rows have no third cell: two columns
\* are left and the second has a non-empty cell
C23_Witness ==
    /\ pc = "built"
    /\ MaxLen(WinnerRows) = 3
    /\ Len(table.cols) = 2
    /\ \E n \in 1..Len(table.body) : table.body[n][2] # <<>>
    /\ \A n \in 1..Len(table.body) : Len(table.body[n]) = 2

\* a table three cells wide that keeps no row: two columns are removed
C23_WitnessRun ==
    /\ pc = "built"
    /\ MaxLen(WinnerRows) = 3
    /\ table.body = <<>>
    /\ Len(table.cols) = 1

\* the rows of a region as the markup has them: for each row-delimited block
\* that extract_rows turns into a row, the text of every cell block at its
\* place, the empty ones too
SourceRows(tbl) ==
    LET trs == SelectSeq(TR_RE(tbl), RowBlock)
    IN  [n \in 1..Len(trs) |-> SourceCells(trs[n])]

\* C24: extract_rows yields, for a row-delimited block, the visible text of
\* each cell-delimited block in source order, one entry per cell block: a
\* cell stands in the extracted row at the place of its block in the source
\* row, an empty cell as an empty entry.
C24_CellPositions ==
    pc = "built" =>
        /\ Len(WinnerRows) = Len(SourceRows(Regions[best]))
        /\ \A n \in 1..Len(WinnerRows) :
              /\ Len(WinnerRows[n]) = Len(SourceRows(Regions[best])[n])
              /\ \A j \in 1..Len(WinnerRows[n]) :
                    WinnerRows[n][j] = SourceRows(Regions[best])[n][j]

\* the row [매출액, "", "3"] of the markup was extracted as [매출액, "3"]: "3"
\* stands in the second place
C24_CellShifted ==
    /\ pc = "built"
    /\ \E n \in 1..Len(WinnerRows) :
          /\ SourceRows(Regions[best])[n] = << <<"maechul", "aek">>, <<>>, <<"3">> >>
          /\ WinnerRows[n] = << <<"maechul", "aek">>, <<"3">> >>

\* the well-formed tables of d: a start marker, the end marker that follows it
\* and no table marker between them, as <<start, end>>
WellFormed(d) ==
    {m \in (1..Len(d)) \X (1..Len(d)) :
        /\ m[1] < m[2]
        /\ d[m[1]] = "<TABLE>"
        /\ d[m[2]] = "</TABLE>"
        /\ \A i \in (m[1] + 1)..(m[2] - 1) : d[i] \notin {"<TABLE>", "</TABLE>"}}

\* the start markers of d with no end marker before the next start marker
Unmatched(d) ==
    {i \in 1..Len(d) :
        /\ d[i] = "<TABLE>"
        /\ \E j \in (i + 1)..Len(d) :
              /\ d[j] = "<TABLE>"
              /\ \A n \in (i + 1)..(j - 1) : d[n] # "</TABLE>"}

\* C25: segmentation tolerates unbalanced markup.  A start marker without its
\* end marker does not abort the scan; the rows of the region it opens are in
\* no candidate; and every well-formed table is a candidate with exactly its
\* own rows (when it has MIN_ROWS of them, and no candidate when it has not).
C25_UnbalancedSkipped ==
    (Scanned /\ Unmatched(doc) # {}) =>
        /\ \A m \in WellFormed(doc) :
              LET own == extract_rows(SubSeq(doc, m[1], m[2]))
              IN  Len(own) >= MIN_ROWS => \E i \in 1..Len(candidates) : candidates[i].rows = own
        /\ \A i \in 1..Len(candidates) :
              \E m \in WellFormed(doc) : candidates[i].rows = extract_rows(SubSeq(doc, m[1], m[2]))

\* a table cut off after its title row, then a statement of MIN_ROWS - 1 rows:
\* the one candidate holds the title row and the statement's rows
C25_RowsMerged ==
    /\ Scanned
    /\ Unmatched(doc) = {1}
    /\ Cardinality(WellFormed(doc)) = 1
    /\ Len(candidates) = 1
    /\ candidates[1].rows = << <<TitleText>> >> \o PlainRows(MIN_ROWS - 1)

\* the text of the cell without its spaces
Unspaced == Remove(Strip(cell), " ")

\* C26: the triangle glyph is a negative marker in leading position only: a
\* cell in which it stands anywhere but first in the space-stripped text
\* (between or after digits, say) is not a number and parses to missing.
C26_TriangleLeadingOnly ==
    (pc = "parsed" /\ \E n \in 2..Len(Unspaced) : Unspaced[n] = "^") => parsed = NoneValue

\* "1△5" gave -15.0
C26_InnerTriangleParsed ==
    /\ pc = "parsed"
    /\ cell = <<"1", "^", "5">>
    /\ parsed = [ok |-> TRUE, num |-> 0 - 15, scale |-> 0]

\* the space-stripped text of the cell stands in a pair of parentheses
Enclosed ==
    /\ Len(Unspaced) >= 2
    /\ Unspaced[1] = "("
    /\ Unspaced[Len(Unspaced)] = ")"

\* C27: a cell that carries a negative marker never parses to a positive
\* number: when its text is enclosed in a pair of parentheses or holds the
\* triangle glyph, the result is missing or a value of zero or less, also when
\* the marker comes with a minus sign or with the other marker.
C27_MarkedNeverPositive ==
    (pc = "parsed" /\ (Enclosed \/ \E n \in 1..Len(Unspaced) : Unspaced[n] = "^")) =>
        ~parsed.ok \/ parsed.num <= 0

\* "(-5)" gave 5.0
C27_PositiveFromMarked ==
    /\ pc = "parsed"
    /\ cell = <<"(", "-", "5", ")">>
    /\ parsed = [ok |-> TRUE, num |-> 5, scale |-> 0]

\* C28: the row build_dataframe takes as header is never a unit legend: the
\* header row of the selected candidate does not hold the unit marker, so a
\* legend row before the row of column titles does not become the column
\* names.
C28_HeaderNotLegend ==
    pc = "built" => ~HasUnit(HeaderRowOf)

\* the legend row ["(단위: 원)"] stands before [구분, 당기, 전기]: the legend is
\* the first column name and the row of titles is a row of the body
C28_LegendIsHeader ==
    /\ pc = "built"
    /\ WinnerRows[1] = UnitRow
    /\ WinnerRows[2] = HeaderRow
    /\ find_header_index(WinnerRows) = 0
    /\ table.cols[1] = UnitRow[1]
    /\ Len(table.body) >= 1
    /\ table.body[1] = BodyForm(HeaderRow)

\* the rows of the selected candidate but its header row, in their order
AllButHeader ==
    SubSeq(WinnerRows, 1, find_header_index(WinnerRows)) \o RowsAfterHeader

\* C29: reconstruction loses no data rows.  Every row of the selected
\* candidate other than the header row, the unit legends and the repeated
\* headers is in the body exactly once and in its original order: the body
\* has as many rows as the candidate, less one, less the legends and repeated
\* headers dropped.
C29_NoRowLost ==
    pc = "built" =>
        LET data == KeptAfterHeader(AllButHeader)
        IN  /\ Len(table.body) = Len(data)
            /\ \A n \in 1..Len(data) : table.body[n] = BodyForm(data[n])

\* the row [매출액, "1,2", "3"] stands before the header [구분, 당기, 전기]: it
\* is in no row of the body, which is a row short
C29_RowBeforeHeaderLost ==
    /\ pc = "built"
    /\ WinnerRows[1] = DataRow(1)
    /\ WinnerRows[2] = HeaderRow
    /\ find_header_index(WinnerRows) = 1
    /\ Len(table.body) = Len(WinnerRows) - 2
    /\ \A n \in 1..Len(table.body) : table.body[n] # BodyForm(DataRow(1))

\* C30: trimming the trailing columns never removes a column whose header
\* cell holds literal text: every non-empty cell of the header row is a column
\* of the table returned, at its place, also when the body has no rows.
C30_LiteralHeaderKept ==
    pc = "built" =>
        \A j \in 1..Len(HeaderRowOf) :
            HeaderRowOf[j] # <<>> =>
                /\ j <= Len(table.cols)
                /\ table.cols[j] = TidyLabel(HeaderRowOf[j])

\* under the header [구분, 당기, 전기] no body row has a third cell: the column
\* 전기 is gone
C30_LabelledColumnTrimmed ==
    /\ pc = "built"
    /\ HeaderRowOf = HeaderRow
    /\ Len(table.body) >= 1
    /\ table.cols = << <<"gu", "bun">>, <<"danggi">> >>

\* the header [구분, 당기, 전기] over no body row at all: 구분 alone is left
C30_EmptyBodyTrimmed ==
    /\ pc = "built"
    /\ HeaderRowOf = HeaderRow
    /\ table.body = <<>>
    /\ table.cols = << <<"gu", "bun">> >>

====
